---- MODULE Spec2Model ----
(***************************************************************************)
(* Model of pyvcloud/vcd/org.py: the chunked upload (Org.upload_file), the *)
(* media upload (Org.upload_media), the two-phase appliance upload         *)
(* (Org.upload_ovf) and the task-gated download                            *)
(* (Org.download_catalog_item).  Under Spec one call of one entry point    *)
(* runs per behaviour; the resource client, the server and the local file  *)
(* system are the environment and answer nondeterministically.  Under      *)
(* ConcSpec two appliance downloads run on two threads of one process.     *)
(***************************************************************************)
EXTENDS Integers, Sequences, FiniteSets, TLC

\* ---------------------------------------------------------------- bounds
MaxSize == 3
MaxChunk == 2
MaxMember == 2

\* A log never needs more entries than this in a run whose file keeps its size.
MaxLog == 2 * MaxSize + 2

\* ------------------------------------------------------------- constants
\* tm.wait_for_success(task, 60, 1, ...): the timeout and the poll interval.
TaskTimeoutArg == 60
TaskIntervalArg == 1

VARIABLES
    op,            \* the entry point that was called
    pc,            \* position inside the entry point
    ret,           \* value returned to the caller, NoVal while there is none
    err,           \* exception that reached the caller, NoErr while there is none
    origin,        \* first exception raised inside the call (history)
    exc,           \* exception in flight inside a try block
    chunk_size,    \* argument chunk_size
    callback,      \* TRUE when a progress callback was supplied
    files,         \* local files read by upload_file: name -> size, Absent if missing
    workspace,     \* the temporary directory: "none", "exists", "removed"
    cwd,           \* process working directory: "orig", "tempdir", or a thread's
                   \* workspace "ws1", "ws2" under ConcSpec
    out,           \* the file at the caller's output path (download)
    http,          \* state-changing requests and downloads issued, in order
    frags,         \* upload_fragment submissions, in order
    progress,      \* callback(transferred, total) invocations, in order
    uf_pc,         \* position inside upload_file
    uf_file,       \* upload_file: file_name
    uf_href,       \* upload_file: href
    st_size,       \* upload_file: stat_info.st_size
    fpos,          \* upload_file: position of the open file object
    my_len,        \* upload_file: len(my_bytes)
    transferred,   \* upload_file: transferred
    uf_exc,        \* upload_file: exception leaving upload_file
    truncated,     \* the file was truncated while upload_file ran
    ovf_file,      \* upload_ovf: TRUE when a file with extension .ovf was found
    desc_size,     \* size of the descriptor file in the workspace
    manifest,      \* References.File entries of the descriptor: <<[href, size]>>
    total_bytes,   \* upload_ovf: total_bytes
    entity,        \* upload_ovf: names of entity.Files.File of the last GET
    si,            \* upload_ovf: index of source_file in files
    ti,            \* upload_ovf: index of target_file in entity.Files.File
    uploads,       \* upload_ovf: upload_file calls made, <<[file, href]>>
    item_type,     \* download: item.Entity.get('type')
    task_elapsed,  \* download: time waited on the task
    task_polls,    \* download: polls of the task made
    count_repr,    \* representation of the count download_from_uri returns
    dfiles,        \* download: the list files
    num_bytes,     \* download: num_bytes of the last member download
    bytes_written, \* download: bytes_written
    threads        \* ConcSpec: the locals of each thread's download_catalog_item

callVars == <<op, pc, ret, err, origin, exc>>
inVars == <<chunk_size, callback>>
fsVars == <<files, workspace, cwd, out>>
netVars == <<http, frags, progress>>
ufVars == <<uf_pc, uf_file, uf_href, st_size, fpos, my_len, transferred,
            uf_exc, truncated>>
ovfVars == <<ovf_file, desc_size, manifest, total_bytes, entity, si, ti, uploads>>
dciVars == <<item_type, task_elapsed, task_polls, count_repr, dfiles,
             num_bytes, bytes_written>>
thVars == <<threads>>
vars == <<callVars, inVars, fsVars, netVars, ufVars, ovfVars, dciVars, thVars>>

\* ------------------------------------------------------------ vocabulary
NoVal == 0 - 1
Absent == 0 - 1
NoErr == <<"none", "">>
Names == {"F", "A", "B"}
Members == {"A", "B"}

Min(a, b) == IF a < b THEN a ELSE b
Max(a, b) == IF a < b THEN b ELSE a

\* Appending to a log; a log longer than MaxLog stops growing.
Log(s, e) == IF Len(s) < MaxLog THEN Append(s, e) ELSE s

\* Python values whose type matters in a comparison.
PyInt(n) == <<"int", n>>
PyStr(n) == <<"str", n>>
\* a != b of Python: values of different types are never equal.
PyNe(a, b) == a # b

\* ceil(s / c) for c > 0
CeilDiv(s, c) == (s + c - 1) \div c

\* 'bytes %s-%s/%s' % (start, end, total)
RangeStr(start, end, total) == <<"bytes", start, end, total>>

\* ----------------------------------------------------------- upload_file
\* f.read(chunk_size): the bytes left from the file position, at most n.
FRead(name, pos, n) == Max(0, Min(n, files[name] - pos))

\* The second value formatted into range_str.
RangeEnd(t, n) == n - 1

\* The loop condition of upload_file.
UfLoopCond(t, size) == t < size

\* Mutant of UfAdvance: the counter advances by the chunk size, not by the bytes read.
UfAdvanceByChunk(t, n) == t + chunk_size

\* The amount added to transferred after a fragment.
UfAdvance(t, n) == t + n

\* transferred = 0; stat_info = os.stat(file_name); open(file_name, 'rb')
UfStat ==
    /\ uf_pc = "stat"
    /\ IF files[uf_file] = Absent
       THEN /\ uf_pc' = "raise"
            /\ uf_exc' = <<"OSError", uf_file>>
            /\ UNCHANGED <<st_size, transferred, fpos>>
       ELSE /\ uf_pc' = "loop"
            /\ st_size' = files[uf_file]
            /\ transferred' = 0
            /\ fpos' = 0
            /\ UNCHANGED uf_exc
    /\ my_len' = 0
    /\ UNCHANGED <<uf_file, uf_href, truncated>>
    /\ UNCHANGED <<callVars, inVars, thVars, fsVars, netVars, ovfVars, dciVars>>

\* while transferred < stat_info.st_size: ... return transferred
UfLoop ==
    /\ uf_pc = "loop"
    /\ uf_pc' = IF UfLoopCond(transferred, st_size) THEN "read" ELSE "return"
    /\ UNCHANGED <<uf_file, uf_href, st_size, fpos, my_len, transferred,
                   uf_exc, truncated>>
    /\ UNCHANGED <<callVars, inVars, thVars, fsVars, netVars, ovfVars, dciVars>>

\* my_bytes = f.read(chunk_size)
UfRead ==
    /\ uf_pc = "read"
    /\ my_len' = FRead(uf_file, fpos, chunk_size)
    /\ fpos' = fpos + FRead(uf_file, fpos, chunk_size)
    /\ uf_pc' = "submit"
    /\ UNCHANGED <<uf_file, uf_href, st_size, transferred, uf_exc, truncated>>
    /\ UNCHANGED <<callVars, inVars, thVars, fsVars, netVars, ovfVars, dciVars>>

\* if len(my_bytes) <= chunk_size: upload_fragment(...); transferred += ...;
\* callback(transferred, stat_info.st_size).  upload_fragment may raise.
UfSubmit ==
    /\ uf_pc = "submit"
    /\ IF my_len <= chunk_size
       THEN \E ok \in BOOLEAN :
              /\ frags' = Log(frags, [href |-> uf_href,
                                      off |-> fpos - my_len,
                                      len |-> my_len,
                                      range |-> RangeStr(transferred,
                                                         RangeEnd(transferred, my_len),
                                                         st_size)])
              /\ IF ok
                 THEN /\ transferred' = UfAdvance(transferred, my_len)
                      /\ progress' = IF callback
                                     THEN Log(progress,
                                              <<UfAdvance(transferred, my_len), st_size>>)
                                     ELSE progress
                      /\ uf_pc' = "loop"
                      /\ UNCHANGED uf_exc
                 ELSE /\ uf_pc' = "raise"
                      /\ uf_exc' = <<"HTTPError", "upload_fragment">>
                      /\ UNCHANGED <<transferred, progress>>
       ELSE /\ uf_pc' = "loop"
            /\ UNCHANGED <<frags, transferred, progress, uf_exc>>
    /\ UNCHANGED <<uf_file, uf_href, st_size, fpos, my_len, truncated>>
    /\ UNCHANGED <<callVars, inVars, thVars, fsVars, http, ovfVars, dciVars>>

\* Environment: another process truncates the file while upload_file reads it.
Truncate ==
    /\ op = "upload_file"
    /\ uf_pc \in {"loop", "read", "submit"}
    /\ ~truncated
    /\ \E n \in 0..MaxSize :
          /\ n < files[uf_file]
          /\ files' = [files EXCEPT ![uf_file] = n]
    /\ truncated' = TRUE
    /\ UNCHANGED <<uf_pc, uf_file, uf_href, st_size, fpos, my_len, transferred, uf_exc>>
    /\ UNCHANGED <<callVars, inVars, thVars, workspace, cwd, out, netVars, ovfVars, dciVars>>

\* Org.upload_file called by the user: its return value or exception reaches the caller.
TopUfReturn ==
    /\ op = "upload_file"
    /\ pc = "in_upload_file"
    /\ uf_pc \in {"return", "raise"}
    /\ IF uf_pc = "return"
       THEN /\ pc' = "done"
            /\ ret' = transferred
            /\ UNCHANGED <<err, origin>>
       ELSE /\ pc' = "failed"
            /\ err' = uf_exc
            /\ origin' = uf_exc
            /\ UNCHANGED ret
    /\ uf_pc' = "idle"
    /\ UNCHANGED <<op, exc>>
    /\ UNCHANGED <<uf_file, uf_href, st_size, fpos, my_len, transferred, uf_exc, truncated>>
    /\ UNCHANGED <<inVars, thVars, fsVars, netVars, ovfVars, dciVars>>

\* ------------------------------------------------------------ upload_ovf
\* An exception raised inside the try block of upload_ovf: control goes to the handler.
OvfRaise(e) ==
    /\ pc' = "ovf_except"
    /\ exc' = e
    /\ origin' = e

\* The archives the caller may pass: which member files they hold (with their
\* sizes) and which members, in which order, the descriptor lists.
ManifestOrders == {<<>>, <<"A">>, <<"B">>, <<"A", "B">>, <<"B", "A">>}
ManifestOf(order, fs) ==
    [i \in 1..Len(order) |->
        [href |-> order[i],
         name |-> order[i],
         size |-> PyStr(IF fs[order[i]] = Absent THEN 1 ELSE fs[order[i]])]]

\* What entity.Files.File may list: the descriptor, then the slots allocated so far.
\* The server allocates slots only for files the descriptor names.
Hrefs(m) == {m[i].href : i \in 1..Len(m)}
SlotLists(m) ==
    {<<"descriptor.ovf">> \o s : s \in {t \in {<<>>, <<"A">>, <<"B">>, <<"A", "B">>} :
                                            \A i \in 1..Len(t) : t[i] \in Hrefs(m)}}

\* len(entity.Files.File) > 1
OvfPollDone(e) == Len(e) > 1

\* Mutant of OvfSlotMatches: a member is uploaded to every slot listed.
OvfSlotMatchesAny(src, tgt) == TRUE

\* source_file.get('href') == target_file.get('name')
OvfSlotMatches(src, tgt) == src.href = tgt

\* Mutant of ExceptCleanup: the handler re-raises without removing the workspace.
ExceptCleanupSkipped(ws) == ws

\* shutil.rmtree(tempdir) in the except handler
ExceptCleanup(ws) == "removed"

\* Mutant of OvfGetCatalog: the workspace is created before the catalog is looked up.
OvfGetCatalogLate ==
    /\ op = "upload_ovf"
    /\ pc = "ovf_get_catalog"
    /\ workspace' = "exists"
    /\ \E found \in BOOLEAN :
          IF found
          THEN /\ pc' = "ovf_mkdtemp"
               /\ UNCHANGED <<err, origin>>
          ELSE /\ pc' = "failed"
               /\ err' = <<"Exception", "Catalog not found.">>
               /\ origin' = <<"Exception", "Catalog not found.">>
    /\ UNCHANGED <<op, ret, exc>>
    /\ UNCHANGED <<inVars, thVars, files, cwd, out, netVars, ufVars, ovfVars, dciVars>>

\* catalog = self.get_catalog(catalog_name): raises when no catalog has the name.
OvfGetCatalog ==
    /\ op = "upload_ovf"
    /\ pc = "ovf_get_catalog"
    /\ \E found \in BOOLEAN :
          IF found
          THEN /\ pc' = "ovf_mkdtemp"
               /\ UNCHANGED <<err, origin>>
          ELSE /\ pc' = "failed"
               /\ err' = <<"Exception", "Catalog not found.">>
               /\ origin' = <<"Exception", "Catalog not found.">>
    /\ UNCHANGED <<op, ret, exc>>
    /\ UNCHANGED <<inVars, thVars, fsVars, netVars, ufVars, ovfVars, dciVars>>

\* tempdir = tempfile.mkdtemp(dir='.'); total_bytes = 0
OvfMkdtemp ==
    /\ op = "upload_ovf"
    /\ pc = "ovf_mkdtemp"
    /\ workspace' = "exists"
    /\ total_bytes' = 0
    /\ pc' = "ovf_extract"
    /\ UNCHANGED <<op, ret, err, origin, exc>>
    /\ UNCHANGED <<ovf_file, desc_size, manifest, entity, si, ti, uploads>>
    /\ UNCHANGED <<inVars, thVars, files, cwd, out, netVars, ufVars, dciVars>>

\* ova = tarfile.open(file_name); ova.extractall(path=tempdir); ova.close();
\* the search of os.listdir(tempdir) for a file with extension '.ovf'
OvfExtract ==
    /\ op = "upload_ovf"
    /\ pc = "ovf_extract"
    /\ \/ /\ OvfRaise(<<"ReadError", "tarfile.open">>)
          /\ UNCHANGED <<files, ovf_file, desc_size, manifest>>
       \/ \E a \in {Absent} \cup 1..MaxMember, b \in {Absent} \cup 1..MaxMember,
             order \in ManifestOrders, found \in BOOLEAN, d \in 1..MaxMember :
            /\ files' = [n \in Names |-> IF n = "A" THEN a ELSE IF n = "B" THEN b ELSE Absent]
            /\ ovf_file' = found
            /\ desc_size' = IF found THEN d ELSE 0
            /\ manifest' = IF found
                           THEN ManifestOf(order, [n \in Members |-> IF n = "A" THEN a ELSE b])
                           ELSE <<>>
            /\ (~found => (d = 1 /\ order = <<>>))
            /\ pc' = IF found THEN "ovf_parse" ELSE "ovf_rmtree"
            /\ UNCHANGED <<exc, origin>>
    /\ UNCHANGED <<op, ret, err>>
    /\ UNCHANGED <<total_bytes, entity, si, ti, uploads>>
    /\ UNCHANGED <<inVars, thVars, workspace, cwd, out, netVars, ufVars, dciVars>>

\* stat_info = os.stat(ovf_file); total_bytes += stat_info.st_size;
\* ovf = objectify.parse(ovf_file); the loop over ovf.getroot().References.File,
\* which raises AttributeError when References has no File child.
OvfParse ==
    /\ op = "upload_ovf"
    /\ pc = "ovf_parse"
    /\ total_bytes' = total_bytes + desc_size
    /\ IF manifest = <<>>
       THEN OvfRaise(<<"AttributeError", "no such child: File">>)
       ELSE /\ pc' = "ovf_post"
            /\ UNCHANGED <<exc, origin>>
    /\ UNCHANGED <<op, ret, err>>
    /\ UNCHANGED <<ovf_file, desc_size, manifest, entity, si, ti, uploads>>
    /\ UNCHANGED <<inVars, thVars, fsVars, netVars, ufVars, dciVars>>

\* catalog_item = self.client.post_resource(catalog.get('href') + '/action/upload', ...)
OvfPost ==
    /\ op = "upload_ovf"
    /\ pc = "ovf_post"
    /\ http' = Log(http, <<"POST", "action/upload">>)
    /\ \E ok \in BOOLEAN :
          IF ok
          THEN /\ pc' = "ovf_get_entity"
               /\ UNCHANGED <<exc, origin>>
          ELSE OvfRaise(<<"HTTPError", "post_resource">>)
    /\ UNCHANGED <<op, ret, err>>
    /\ UNCHANGED <<inVars, thVars, fsVars, frags, progress, ufVars, ovfVars, dciVars>>

\* entity = self.client.get_resource(catalog_item.Entity.get('href'));
\* file_href = entity.Files.File.Link.get('href')
OvfGetEntity ==
    /\ op = "upload_ovf"
    /\ pc = "ovf_get_entity"
    /\ \E ok \in BOOLEAN :
          IF ok
          THEN /\ pc' = "ovf_put"
               /\ entity' = <<"descriptor.ovf">>
               /\ UNCHANGED <<exc, origin>>
          ELSE /\ OvfRaise(<<"HTTPError", "get_resource">>)
               /\ UNCHANGED entity
    /\ UNCHANGED <<op, ret, err>>
    /\ UNCHANGED <<ovf_file, desc_size, manifest, total_bytes, si, ti, uploads>>
    /\ UNCHANGED <<inVars, thVars, fsVars, netVars, ufVars, dciVars>>

\* self.client.put_resource(file_href, ovf, 'text/xml')
OvfPut ==
    /\ op = "upload_ovf"
    /\ pc = "ovf_put"
    /\ http' = Log(http, <<"PUT", "descriptor.ovf">>)
    /\ \E ok \in BOOLEAN :
          IF ok
          THEN /\ pc' = "ovf_sleep"
               /\ UNCHANGED <<exc, origin>>
          ELSE OvfRaise(<<"HTTPError", "put_resource">>)
    /\ UNCHANGED <<op, ret, err>>
    /\ UNCHANGED <<inVars, thVars, fsVars, frags, progress, ufVars, ovfVars, dciVars>>

\* while True: time.sleep(5)
OvfSleep ==
    /\ op = "upload_ovf"
    /\ pc = "ovf_sleep"
    /\ pc' = "ovf_poll"
    /\ UNCHANGED <<op, ret, err, origin, exc>>
    /\ UNCHANGED <<inVars, thVars, fsVars, netVars, ufVars, ovfVars, dciVars>>

\* entity = self.client.get_resource(...); if len(entity.Files.File) > 1: break
OvfPoll ==
    /\ op = "upload_ovf"
    /\ pc = "ovf_poll"
    /\ \/ /\ OvfRaise(<<"HTTPError", "get_resource">>)
          /\ UNCHANGED <<entity, si, ti>>
       \/ \E e \in SlotLists(manifest) :
            /\ entity' = e
            /\ pc' = IF OvfPollDone(e) THEN "ovf_match" ELSE "ovf_sleep"
            /\ si' = 1
            /\ ti' = 1
            /\ UNCHANGED <<exc, origin>>
    /\ UNCHANGED <<op, ret, err>>
    /\ UNCHANGED <<ovf_file, desc_size, manifest, total_bytes, uploads>>
    /\ UNCHANGED <<inVars, thVars, fsVars, netVars, ufVars, dciVars>>

\* for source_file in files: for target_file in entity.Files.File:
\*     if source_file.get('href') == target_file.get('name'): self.upload_file(...)
OvfMatch ==
    /\ op = "upload_ovf"
    /\ pc = "ovf_match"
    /\ IF si > Len(manifest)
       THEN /\ pc' = "ovf_rmtree"
            /\ UNCHANGED <<si, ti, uploads, uf_pc, uf_file, uf_href>>
       ELSE IF ti > Len(entity)
       THEN /\ si' = si + 1
            /\ ti' = 1
            /\ UNCHANGED <<pc, uploads, uf_pc, uf_file, uf_href>>
       ELSE IF OvfSlotMatches(manifest[si], entity[ti])
       THEN /\ pc' = "ovf_in_upload"
            /\ uf_pc' = "stat"
            /\ uf_file' = manifest[si].href
            /\ uf_href' = <<"link", entity[ti]>>
            /\ uploads' = Log(uploads, [file |-> manifest[si].href,
                                        href |-> <<"link", entity[ti]>>])
            /\ UNCHANGED <<si, ti>>
       ELSE /\ ti' = ti + 1
            /\ UNCHANGED <<pc, si, uploads, uf_pc, uf_file, uf_href>>
    /\ UNCHANGED <<op, ret, err, origin, exc>>
    /\ UNCHANGED <<st_size, fpos, my_len, transferred, uf_exc, truncated>>
    /\ UNCHANGED <<ovf_file, desc_size, manifest, total_bytes, entity>>
    /\ UNCHANGED <<inVars, thVars, fsVars, netVars, dciVars>>

\* total_bytes += self.upload_file(...); an exception of upload_file reaches the handler.
OvfUfReturn ==
    /\ op = "upload_ovf"
    /\ pc = "ovf_in_upload"
    /\ uf_pc \in {"return", "raise"}
    /\ IF uf_pc = "return"
       THEN /\ total_bytes' = total_bytes + transferred
            /\ ti' = ti + 1
            /\ pc' = "ovf_match"
            /\ UNCHANGED <<exc, origin>>
       ELSE /\ OvfRaise(uf_exc)
            /\ UNCHANGED <<total_bytes, ti>>
    /\ uf_pc' = "idle"
    /\ UNCHANGED <<op, ret, err>>
    /\ UNCHANGED <<uf_file, uf_href, st_size, fpos, my_len, transferred, uf_exc, truncated>>
    /\ UNCHANGED <<ovf_file, desc_size, manifest, entity, si, uploads>>
    /\ UNCHANGED <<inVars, thVars, fsVars, netVars, dciVars>>

\* shutil.rmtree(tempdir) at the end of the try block
OvfRmtree ==
    /\ op = "upload_ovf"
    /\ pc = "ovf_rmtree"
    /\ workspace' = "removed"
    /\ pc' = "ovf_return"
    /\ UNCHANGED <<op, ret, err, origin, exc>>
    /\ UNCHANGED <<inVars, thVars, files, cwd, out, netVars, ufVars, ovfVars, dciVars>>

\* return total_bytes
OvfReturn ==
    /\ op = "upload_ovf"
    /\ pc = "ovf_return"
    /\ pc' = "done"
    /\ ret' = total_bytes
    /\ UNCHANGED <<op, err, origin, exc>>
    /\ UNCHANGED <<inVars, thVars, fsVars, netVars, ufVars, ovfVars, dciVars>>

\* except Exception as e: print(traceback.format_exc()); shutil.rmtree(tempdir)
OvfExcept ==
    /\ op = "upload_ovf"
    /\ pc = "ovf_except"
    /\ workspace' = ExceptCleanup(workspace)
    /\ pc' = "ovf_reraise"
    /\ UNCHANGED <<op, ret, err, origin, exc>>
    /\ UNCHANGED <<inVars, thVars, files, cwd, out, netVars, ufVars, ovfVars, dciVars>>

\* raise e
OvfReraise ==
    /\ op = "upload_ovf"
    /\ pc = "ovf_reraise"
    /\ pc' = "failed"
    /\ err' = exc
    /\ UNCHANGED <<op, ret, origin, exc>>
    /\ UNCHANGED <<inVars, thVars, fsVars, netVars, ufVars, ovfVars, dciVars>>

\* ------------------------------------------------- download_catalog_item
\* An exception raised outside the try block: it reaches the caller at once.
DciFail(e) ==
    /\ pc' = "failed"
    /\ err' = e
    /\ origin' = e

\* An exception raised inside the try block: the finally clause runs first.
DciRaise(e) ==
    /\ pc' = "dci_finally"
    /\ exc' = e
    /\ origin' = e

\* _TaskMonitor.wait_for_success(task, timeout, interval): what one poll that saw
\* `status` after `elapsed` time units leads to.
WaitForSuccess(status, elapsed, timeout, interval) ==
    IF status = "success" THEN "success"
    ELSE IF status = "error" THEN "TaskFailed"
    ELSE IF elapsed + interval >= timeout THEN "TaskTimeout"
    ELSE "again"

\* client.download_from_uri(uri, target, size=...): the counts it may return for a
\* file of declared size n, in the representation the client uses for counts.
Counts(n) == 0..n
Count(k) == IF count_repr = "int" THEN PyInt(k) ELSE PyStr(k)

\* os.stat(file_name).st_size of the file at the output path: one unit of framing
\* per member plus the member data.
RECURSIVE DataBytes(_, _)
DataBytes(ms, i) == IF i > Len(ms) THEN 0 ELSE ms[i].bytes + DataBytes(ms, i + 1)
StatSize(o) == IF o.state = "old" THEN 1 ELSE Len(o.members) + DataBytes(o.members, 1)

\* Mutant of SizeMismatch: the size check is dropped.
SizeMismatchIgnored(n, size) == FALSE

\* num_bytes != source_file['size']
SizeMismatch(n, size) == PyNe(n, size)

\* Mutant of TaskTimeoutUsed: the timeout is given in the wrong unit.
TaskTimeoutWrongUnit == TaskTimeoutArg * 10

\* The timeout download_catalog_item hands to wait_for_success.
TaskTimeoutUsed == TaskTimeoutArg

\* item = self.get_catalog_item(catalog_name, item_name);
\* item_type = item.Entity.get('type'); enable_href = ...
DciGetItem ==
    /\ op = "download_catalog_item"
    /\ pc = "dci_get_item"
    /\ \E r \in {"media", "vappTemplate", "other", "no_catalog", "no_item"} :
          IF r = "no_catalog"
          THEN /\ DciFail(<<"Exception", "Catalog not found.">>)
               /\ UNCHANGED item_type
          ELSE IF r = "no_item"
          THEN /\ DciFail(<<"Exception", "Catalog item not found.">>)
               /\ UNCHANGED item_type
          ELSE /\ item_type' = r
               /\ pc' = "dci_post"
               /\ UNCHANGED <<err, origin>>
    /\ UNCHANGED <<op, ret, exc>>
    /\ UNCHANGED <<task_elapsed, task_polls, count_repr, dfiles, num_bytes, bytes_written>>
    /\ UNCHANGED <<inVars, thVars, fsVars, netVars, ufVars, ovfVars>>

\* task = self.client.post_resource(enable_href, None, None); tm = _TaskMonitor(...)
DciPost ==
    /\ op = "download_catalog_item"
    /\ pc = "dci_post"
    /\ http' = Log(http, <<"POST", "action/enableDownload">>)
    /\ \E ok \in BOOLEAN :
          IF ok
          THEN /\ pc' = "dci_wait"
               /\ UNCHANGED <<err, origin>>
          ELSE DciFail(<<"HTTPError", "post_resource">>)
    /\ UNCHANGED <<op, ret, exc>>
    /\ UNCHANGED <<inVars, thVars, fsVars, frags, progress, ufVars, ovfVars, dciVars>>

\* tm.wait_for_success(task, 60, 1, callback=task_callback): one poll of the task.
\* The monitor's clock and poll count are its locals: they are gone when it returns.
DciWait ==
    /\ op = "download_catalog_item"
    /\ pc = "dci_wait"
    /\ \E status \in {"running", "success", "error"} :
        LET outcome == WaitForSuccess(status, task_elapsed, TaskTimeoutUsed, TaskIntervalArg)
        IN  IF outcome = "success"
            THEN /\ pc' = "dci_get_entity"
                 /\ task_polls' = 0
                 /\ task_elapsed' = 0
                 /\ UNCHANGED <<err, origin>>
            ELSE IF outcome = "TaskFailed"
            THEN /\ DciFail(<<"TaskFailed", "enableDownload">>)
                 /\ task_polls' = task_polls + 1
                 /\ UNCHANGED task_elapsed
            ELSE IF outcome = "TaskTimeout"
            THEN /\ DciFail(<<"TaskTimeout", "enableDownload">>)
                 /\ task_polls' = task_polls + 1
                 /\ task_elapsed' = task_elapsed + TaskIntervalArg
            ELSE /\ task_polls' = task_polls + 1
                 /\ task_elapsed' = task_elapsed + TaskIntervalArg
                 /\ UNCHANGED <<pc, err, origin>>
    /\ UNCHANGED <<op, ret, exc>>
    /\ UNCHANGED <<item_type, count_repr, dfiles, num_bytes, bytes_written>>
    /\ UNCHANGED <<inVars, thVars, fsVars, netVars, ufVars, ovfVars>>

\* item = self.client.get_resource(item.Entity.get('href')); bytes_written = 0;
\* the branch on item_type
DciGetEntity ==
    /\ op = "download_catalog_item"
    /\ pc = "dci_get_entity"
    /\ bytes_written' = 0
    /\ \E ok \in BOOLEAN :
          IF ok
          THEN /\ pc' = IF item_type = "media" THEN "dci_media"
                        ELSE IF item_type = "vappTemplate" THEN "dci_descriptor"
                        ELSE "dci_return"
               /\ UNCHANGED <<err, origin>>
          ELSE DciFail(<<"HTTPError", "get_resource">>)
    /\ UNCHANGED <<op, ret, exc>>
    /\ UNCHANGED <<item_type, task_elapsed, task_polls, count_repr, dfiles, num_bytes>>
    /\ UNCHANGED <<inVars, thVars, fsVars, netVars, ufVars, ovfVars>>

\* Mutant of DciMediaReturn: the declared size is returned instead of the count.
DciMediaReturnDeclared(k, size) == size

\* bytes_written = self.client.download_from_uri(...): the value the media branch
\* keeps is the count k the download reported for an item of declared size `size`.
DciMediaReturn(k, size) == k

\* size = item.Files.File.get('size'); bytes_written = self.client.download_from_uri(
\*     download_href, file_name, chunk_size=chunk_size, size=size, callback=callback)
DciMedia ==
    /\ op = "download_catalog_item"
    /\ pc = "dci_media"
    /\ http' = Log(http, <<"GET", "media">>)
    /\ \E size \in 1..MaxMember, k \in 0..MaxMember, ok \in BOOLEAN :
          /\ k \in Counts(size)
          /\ manifest' = <<[href |-> "media", name |-> "media", size |-> PyStr(size)]>>
          /\ out' = [state |-> IF ok /\ k = size THEN "complete" ELSE "partial",
                     members |-> <<[name |-> "media", bytes |-> k]>>]
          /\ IF ok
             THEN /\ bytes_written' = DciMediaReturn(k, size)
                  /\ pc' = "dci_return"
                  /\ UNCHANGED <<err, origin>>
             ELSE /\ DciFail(<<"HTTPError", "download_from_uri">>)
                  /\ UNCHANGED bytes_written
    /\ UNCHANGED <<op, ret, exc>>
    /\ UNCHANGED <<item_type, task_elapsed, task_polls, count_repr, dfiles, num_bytes>>
    /\ UNCHANGED <<ovf_file, desc_size, total_bytes, entity, si, ti, uploads>>
    /\ UNCHANGED <<inVars, thVars, files, workspace, cwd, frags, progress, ufVars>>

\* ovf_descriptor = self.client.get_linked_resource(item, DOWNLOAD_DEFAULT, TEXT_XML);
\* transfer_uri = find_link(...).href.replace(...); tempdir = None; cwd = os.getcwd()
DciDescriptor ==
    /\ op = "download_catalog_item"
    /\ pc = "dci_descriptor"
    /\ http' = Log(http, <<"GET", "descriptor.ovf">>)
    /\ \/ /\ DciFail(<<"HTTPError", "get_linked_resource">>)
          /\ UNCHANGED <<manifest, desc_size>>
       \/ \E a \in 1..MaxMember, b \in 1..MaxMember, order \in ManifestOrders,
             d \in 1..MaxMember :
            /\ manifest' = ManifestOf(order, [n \in Members |-> IF n = "A" THEN a ELSE b])
            /\ ("A" \notin Hrefs(manifest') => a = 1)
            /\ ("B" \notin Hrefs(manifest') => b = 1)
            /\ desc_size' = d
            /\ pc' = "dci_mkdtemp"
            /\ UNCHANGED <<err, origin>>
    /\ UNCHANGED <<op, ret, exc>>
    /\ UNCHANGED <<ovf_file, total_bytes, entity, si, ti, uploads>>
    /\ UNCHANGED <<inVars, thVars, fsVars, frags, progress, ufVars, dciVars>>

\* try: tempdir = tempfile.mkdtemp(dir='.')
DciMkdtemp ==
    /\ op = "download_catalog_item"
    /\ pc = "dci_mkdtemp"
    /\ \E ok \in BOOLEAN :
          IF ok
          THEN /\ workspace' = "exists"
               /\ pc' = "dci_write_descriptor"
               /\ UNCHANGED <<exc, origin>>
          ELSE /\ DciRaise(<<"OSError", "mkdtemp">>)
               /\ UNCHANGED workspace
    /\ UNCHANGED <<op, ret, err>>
    /\ UNCHANGED <<inVars, thVars, files, cwd, out, netVars, ufVars, ovfVars, dciVars>>

\* with open(ovf_file, 'wb') as f: f.write(etree.tostring(ovf_descriptor, ...));
\* files = []; the start of the loop over ovf_descriptor.References.File, which
\* raises AttributeError when References has no File child.
DciWriteDescriptor ==
    /\ op = "download_catalog_item"
    /\ pc = "dci_write_descriptor"
    /\ dfiles' = <<>>
    /\ si' = 1
    /\ \E ok \in BOOLEAN :
          IF ~ok
          THEN DciRaise(<<"IOError", "descriptor.ovf">>)
          ELSE IF manifest = <<>>
          THEN DciRaise(<<"AttributeError", "no such child: File">>)
          ELSE /\ pc' = "dci_download"
               /\ UNCHANGED <<exc, origin>>
    /\ UNCHANGED <<op, ret, err>>
    /\ UNCHANGED <<item_type, task_elapsed, task_polls, count_repr, num_bytes, bytes_written>>
    /\ UNCHANGED <<ovf_file, desc_size, manifest, total_bytes, entity, ti, uploads>>
    /\ UNCHANGED <<inVars, thVars, fsVars, netVars, ufVars>>

\* One iteration of the loop over References.File: the member download, the size
\* check and files.append(source_file).
DciDownload ==
    /\ op = "download_catalog_item"
    /\ pc = "dci_download"
    /\ http' = Log(http, <<"GET", manifest[si].href>>)
    /\ \/ /\ DciRaise(<<"HTTPError", "download_from_uri">>)
          /\ UNCHANGED <<num_bytes, dfiles, si>>
       \/ \E k \in Counts(manifest[si].size[2]) :
            /\ num_bytes' = Count(k)
            /\ IF SizeMismatch(Count(k), manifest[si].size)
               THEN /\ DciRaise(<<"DownloadIncomplete", manifest[si].href>>)
                    /\ UNCHANGED <<dfiles, si>>
               ELSE /\ dfiles' = Append(dfiles, manifest[si])
                    /\ si' = si + 1
                    /\ pc' = IF si = Len(manifest) THEN "dci_tar_open" ELSE "dci_download"
                    /\ UNCHANGED <<exc, origin>>
    /\ UNCHANGED <<op, ret, err>>
    /\ UNCHANGED <<item_type, task_elapsed, task_polls, count_repr, bytes_written>>
    /\ UNCHANGED <<ovf_file, desc_size, manifest, total_bytes, entity, ti, uploads>>
    /\ UNCHANGED <<inVars, thVars, fsVars, frags, progress, ufVars>>

\* with tarfile.open(file_name, 'w') as tar:
DciTarOpen ==
    /\ op = "download_catalog_item"
    /\ pc = "dci_tar_open"
    /\ \E ok \in BOOLEAN :
          IF ok
          THEN /\ out' = [state |-> "partial", members |-> <<>>]
               /\ pc' = "dci_chdir"
               /\ UNCHANGED <<exc, origin>>
          ELSE /\ DciRaise(<<"IOError", "tarfile.open">>)
               /\ UNCHANGED out
    /\ UNCHANGED <<op, ret, err>>
    /\ UNCHANGED <<inVars, thVars, files, workspace, cwd, netVars, ufVars, ovfVars, dciVars>>

\* os.chdir(tempdir)
DciChdir ==
    /\ op = "download_catalog_item"
    /\ pc = "dci_chdir"
    /\ cwd' = "tempdir"
    /\ si' = 0
    /\ pc' = "dci_tar_add"
    /\ UNCHANGED <<op, ret, err, origin, exc>>
    /\ UNCHANGED <<ovf_file, desc_size, manifest, total_bytes, entity, ti, uploads>>
    /\ UNCHANGED <<inVars, thVars, files, workspace, out, netVars, ufVars, dciVars>>

\* tar.add('descriptor.ovf'); for f in files: tar.add(f['href']); leaving the with
\* block closes the archive, after an exception without its end marker.
DciTarAdd ==
    /\ op = "download_catalog_item"
    /\ pc = "dci_tar_add"
    /\ IF si > Len(dfiles)
       THEN /\ out' = [out EXCEPT !.state = "complete"]
            /\ pc' = "dci_finally"
            /\ UNCHANGED <<si, exc, origin>>
       ELSE \E ok \in BOOLEAN :
            IF ok
            THEN /\ out' = [out EXCEPT !.members =
                               Append(@, IF si = 0
                                         THEN [name |-> "descriptor.ovf", bytes |-> desc_size]
                                         ELSE [name |-> dfiles[si].href,
                                               bytes |-> dfiles[si].size[2]])]
                 /\ si' = si + 1
                 /\ UNCHANGED <<pc, exc, origin>>
            ELSE /\ DciRaise(<<"IOError", "tar.add">>)
                 /\ UNCHANGED <<out, si>>
    /\ UNCHANGED <<op, ret, err>>
    /\ UNCHANGED <<ovf_file, desc_size, manifest, total_bytes, entity, ti, uploads>>
    /\ UNCHANGED <<inVars, thVars, files, workspace, cwd, netVars, ufVars, dciVars>>

\* Mutant of FinallyCwd: the finally clause leaves the directory as it is.
FinallyCwdKept(c) == c

\* os.chdir(cwd) of the finally clause: from directory c back to the directory
\* os.getcwd() returned before the try block.
FinallyCwd(c) == "orig"

\* finally: if tempdir is not None: os.chdir(cwd); stat_info = os.stat(file_name);
\* bytes_written = stat_info.st_size  (# shutil.rmtree(tempdir) is commented out).
\* An exception of os.stat replaces the one in flight.
DciFinally ==
    /\ op = "download_catalog_item"
    /\ pc = "dci_finally"
    /\ IF workspace = "none"
       THEN /\ pc' = "failed"
            /\ err' = exc
            /\ UNCHANGED <<cwd, bytes_written, origin>>
       ELSE /\ cwd' = FinallyCwd(cwd)
            /\ IF out.state = "absent"
               THEN /\ pc' = "failed"
                    /\ err' = <<"OSError", "stat">>
                    /\ origin' = IF origin = NoErr THEN <<"OSError", "stat">> ELSE origin
                    /\ UNCHANGED bytes_written
               ELSE /\ bytes_written' = StatSize(out)
                    /\ pc' = IF exc = NoErr THEN "dci_return" ELSE "failed"
                    /\ err' = exc
                    /\ UNCHANGED origin
    /\ UNCHANGED <<op, ret, exc>>
    /\ UNCHANGED <<item_type, task_elapsed, task_polls, count_repr, dfiles, num_bytes>>
    /\ UNCHANGED <<inVars, thVars, files, workspace, out, netVars, ufVars, ovfVars>>

\* return bytes_written
DciReturn ==
    /\ op = "download_catalog_item"
    /\ pc = "dci_return"
    /\ pc' = "done"
    /\ ret' = bytes_written
    /\ UNCHANGED <<op, err, origin, exc>>
    /\ UNCHANGED <<inVars, thVars, fsVars, netVars, ufVars, ovfVars, dciVars>>

\* ---------------------------------------------------------- upload_media
\* An exception raised in upload_media, which has no handler, reaches the caller.
UmFail(e) ==
    /\ pc' = "failed"
    /\ err' = e
    /\ origin' = e

\* stat_info = os.stat(file_name): raises OSError when the local file is missing.
UmStat ==
    /\ op = "upload_media"
    /\ pc = "um_stat"
    /\ IF files[uf_file] = Absent
       THEN UmFail(<<"OSError", uf_file>>)
       ELSE /\ pc' = "um_get_catalog"
            /\ UNCHANGED <<err, origin>>
    /\ UNCHANGED <<op, ret, exc>>
    /\ UNCHANGED <<inVars, thVars, fsVars, netVars, ufVars, ovfVars, dciVars>>

\* catalog = self.get_catalog(catalog_name): raises when no catalog has the name.
UmGetCatalog ==
    /\ op = "upload_media"
    /\ pc = "um_get_catalog"
    /\ \E found \in BOOLEAN :
          IF found
          THEN /\ pc' = "um_post"
               /\ UNCHANGED <<err, origin>>
          ELSE UmFail(<<"Exception", "Catalog not found.">>)
    /\ UNCHANGED <<op, ret, exc>>
    /\ UNCHANGED <<inVars, thVars, fsVars, netVars, ufVars, ovfVars, dciVars>>

\* catalog_item = self.client.post_resource(catalog.get('href') + '/action/upload',
\*                                          media, EntityType.MEDIA.value)
UmPost ==
    /\ op = "upload_media"
    /\ pc = "um_post"
    /\ http' = Log(http, <<"POST", "action/upload">>)
    /\ \E ok \in BOOLEAN :
          IF ok
          THEN /\ pc' = "um_get_entity"
               /\ UNCHANGED <<err, origin>>
          ELSE UmFail(<<"HTTPError", "post_resource">>)
    /\ UNCHANGED <<op, ret, exc>>
    /\ UNCHANGED <<inVars, thVars, fsVars, frags, progress, ufVars, ovfVars, dciVars>>

\* entity = self.client.get_resource(catalog_item.Entity.get('href'));
\* file_href = entity.Files.File.Link.get('href'); the call of self.upload_file
UmGetEntity ==
    /\ op = "upload_media"
    /\ pc = "um_get_entity"
    /\ \E ok \in BOOLEAN :
          IF ok
          THEN /\ pc' = "um_in_upload"
               /\ uf_pc' = "stat"
               /\ uploads' = Log(uploads, [file |-> uf_file, href |-> uf_href])
               /\ UNCHANGED <<err, origin>>
          ELSE /\ UmFail(<<"HTTPError", "get_resource">>)
               /\ UNCHANGED <<uf_pc, uploads>>
    /\ UNCHANGED <<op, ret, exc>>
    /\ UNCHANGED <<uf_file, uf_href, st_size, fpos, my_len, transferred, uf_exc, truncated>>
    /\ UNCHANGED <<ovf_file, desc_size, manifest, total_bytes, entity, si, ti>>
    /\ UNCHANGED <<inVars, thVars, fsVars, netVars, dciVars>>

\* return self.upload_file(file_name, file_href, chunk_size=chunk_size, callback=callback)
UmUfReturn ==
    /\ op = "upload_media"
    /\ pc = "um_in_upload"
    /\ uf_pc \in {"return", "raise"}
    /\ IF uf_pc = "return"
       THEN /\ pc' = "done"
            /\ ret' = transferred
            /\ UNCHANGED <<err, origin>>
       ELSE /\ UmFail(uf_exc)
            /\ UNCHANGED ret
    /\ uf_pc' = "idle"
    /\ UNCHANGED <<op, exc>>
    /\ UNCHANGED <<uf_file, uf_href, st_size, fpos, my_len, transferred, uf_exc, truncated>>
    /\ UNCHANGED <<inVars, thVars, fsVars, netVars, ovfVars, dciVars>>

\* ------------------------------------- two appliance downloads, one process
\* Each thread runs the appliance branch of download_catalog_item from
\* cwd = os.getcwd() on, with its own locals, its own template (one member file,
\* href) and its own absolute output path.  The working directory is the
\* process's: cwd is shared.  The server and the file system never fail here.
Threads == {1, 2}

\* The directory tempfile.mkdtemp creates for thread t, and the thread a directory
\* belongs to (0 for the directory the process started in).
Ws(t) == IF t = 1 THEN "ws1" ELSE "ws2"
Owner(d) == IF d = "ws1" THEN 1 ELSE IF d = "ws2" THEN 2 ELSE 0

\* The locals of a thread: cwd (what os.getcwd() returned), tempdir (the directory
\* in which mkdtemp(dir='.') created the workspace, "none" while tempdir is None),
\* abs (mkdtemp returned an absolute path: Python 3.12 and later), held (the files
\* in the workspace), opened (the output file exists), tar (the members added, each
\* with the thread whose workspace it was read from), exc (exception in flight).
ThreadLocals(h, a) ==
    [pc |-> "getcwd", href |-> h, abs |-> a, cwd |-> "orig", tempdir |-> "none",
     held |-> {}, opened |-> FALSE, tar |-> <<>>, exc |-> NoErr, err |-> NoErr]
NoThreads == [t \in Threads |-> [ThreadLocals("A", FALSE) EXCEPT !.pc = "idle"]]

\* Whether the path in tempdir names the thread's workspace now: an absolute path
\* always does, a relative one only from the directory it was created in.
ThResolves(t) == threads[t].abs \/ cwd = threads[t].tempdir

\* Whether a relative name is found from the current working directory.
ThFound(name) == Owner(cwd) # 0 /\ name \in threads[Owner(cwd)].held

\* An exception inside the try block: the finally clause runs next.
ThRaise(t, e) == threads' = [threads EXCEPT ![t].pc = "finally", ![t].exc = e]

\* tempdir = None; cwd = os.getcwd()
ThGetcwd(t) ==
    /\ op = "two_downloads"
    /\ threads[t].pc = "getcwd"
    /\ threads' = [threads EXCEPT ![t].pc = "mkdtemp", ![t].cwd = cwd]
    /\ UNCHANGED <<callVars, inVars, fsVars, netVars, ufVars, ovfVars, dciVars>>

\* tempdir = tempfile.mkdtemp(dir='.')
ThMkdtemp(t) ==
    /\ op = "two_downloads"
    /\ threads[t].pc = "mkdtemp"
    /\ threads' = [threads EXCEPT ![t].pc = "write_descriptor", ![t].tempdir = cwd]
    /\ UNCHANGED <<callVars, inVars, fsVars, netVars, ufVars, ovfVars, dciVars>>

\* ovf_file = os.path.join(tempdir, 'descriptor.ovf'); with open(ovf_file, 'wb') ...
ThWriteDescriptor(t) ==
    /\ op = "two_downloads"
    /\ threads[t].pc = "write_descriptor"
    /\ IF ThResolves(t)
       THEN threads' = [threads EXCEPT ![t].pc = "download",
                                       ![t].held = @ \cup {"descriptor.ovf"}]
       ELSE ThRaise(t, <<"IOError", "descriptor.ovf">>)
    /\ UNCHANGED <<callVars, inVars, fsVars, netVars, ufVars, ovfVars, dciVars>>

\* target_file = os.path.join(tempdir, source_file['href']);
\* num_bytes = self.client.download_from_uri(uri, target_file, ...); the size check
\* passes; files.append(source_file)
ThDownload(t) ==
    /\ op = "two_downloads"
    /\ threads[t].pc = "download"
    /\ IF ThResolves(t)
       THEN threads' = [threads EXCEPT ![t].pc = "tar_open",
                                       ![t].held = @ \cup {threads[t].href}]
       ELSE ThRaise(t, <<"IOError", threads[t].href>>)
    /\ UNCHANGED <<callVars, inVars, fsVars, netVars, ufVars, ovfVars, dciVars>>

\* with tarfile.open(file_name, 'w') as tar:
ThTarOpen(t) ==
    /\ op = "two_downloads"
    /\ threads[t].pc = "tar_open"
    /\ threads' = [threads EXCEPT ![t].pc = "chdir", ![t].opened = TRUE]
    /\ UNCHANGED <<callVars, inVars, fsVars, netVars, ufVars, ovfVars, dciVars>>

\* os.chdir(tempdir): changes the directory of the whole process.
ThChdir(t) ==
    /\ op = "two_downloads"
    /\ threads[t].pc = "chdir"
    /\ IF ThResolves(t)
       THEN /\ cwd' = Ws(t)
            /\ threads' = [threads EXCEPT ![t].pc = "add_descriptor"]
       ELSE /\ ThRaise(t, <<"OSError", "chdir">>)
            /\ UNCHANGED cwd
    /\ UNCHANGED <<callVars, inVars, files, workspace, out, netVars, ufVars,
                   ovfVars, dciVars>>

\* tar.add('descriptor.ovf'): the name is looked up in the working directory.
ThAddDescriptor(t) ==
    /\ op = "two_downloads"
    /\ threads[t].pc = "add_descriptor"
    /\ IF ThFound("descriptor.ovf")
       THEN threads' = [threads EXCEPT
                           ![t].pc = "add_member",
                           ![t].tar = Append(@, <<"descriptor.ovf", Owner(cwd)>>)]
       ELSE ThRaise(t, <<"OSError", "descriptor.ovf">>)
    /\ UNCHANGED <<callVars, inVars, fsVars, netVars, ufVars, ovfVars, dciVars>>

\* for f in files: tar.add(f['href']); the with block closes the archive.
ThAddMember(t) ==
    /\ op = "two_downloads"
    /\ threads[t].pc = "add_member"
    /\ IF ThFound(threads[t].href)
       THEN threads' = [threads EXCEPT
                           ![t].pc = "finally",
                           ![t].tar = Append(@, <<threads[t].href, Owner(cwd)>>)]
       ELSE ThRaise(t, <<"OSError", threads[t].href>>)
    /\ UNCHANGED <<callVars, inVars, fsVars, netVars, ufVars, ovfVars, dciVars>>

\* finally: if tempdir is not None: os.chdir(cwd); stat_info = os.stat(file_name);
\* bytes_written = stat_info.st_size; then return bytes_written or the exception.
ThFinally(t) ==
    /\ op = "two_downloads"
    /\ threads[t].pc = "finally"
    /\ IF threads[t].tempdir = "none"
       THEN /\ threads' = [threads EXCEPT ![t].pc = "failed", ![t].err = threads[t].exc]
            /\ UNCHANGED cwd
       ELSE /\ cwd' = threads[t].cwd
            /\ IF ~threads[t].opened
               THEN threads' = [threads EXCEPT ![t].pc = "failed",
                                               ![t].err = <<"OSError", "stat">>]
               ELSE IF threads[t].exc = NoErr
               THEN threads' = [threads EXCEPT ![t].pc = "done"]
               ELSE threads' = [threads EXCEPT ![t].pc = "failed",
                                               ![t].err = threads[t].exc]
    /\ UNCHANGED <<callVars, inVars, files, workspace, out, netVars, ufVars,
                   ovfVars, dciVars>>

\* ------------------------------------------------------------------ Init
InitCommon ==
    /\ ret = NoVal
    /\ err = NoErr
    /\ origin = NoErr
    /\ exc = NoErr
    /\ workspace = "none"
    /\ cwd = "orig"
    /\ http = <<>>
    /\ frags = <<>>
    /\ progress = <<>>
    /\ st_size = 0
    /\ fpos = 0
    /\ my_len = 0
    /\ transferred = 0
    /\ uf_exc = NoErr
    /\ truncated = FALSE
    /\ ovf_file = FALSE
    /\ desc_size = 0
    /\ manifest = <<>>
    /\ total_bytes = 0
    /\ entity = <<>>
    /\ si = 0
    /\ ti = 0
    /\ uploads = <<>>
    /\ item_type = "none"
    /\ task_elapsed = 0
    /\ task_polls = 0
    /\ dfiles = <<>>
    /\ num_bytes = PyInt(0)
    /\ bytes_written = 0

InitUploadFile ==
    /\ op = "upload_file"
    /\ pc = "in_upload_file"
    /\ uf_pc = "stat"
    /\ uf_file = "F"
    /\ uf_href = <<"link", "F">>
    /\ \E s \in Absent..MaxSize :
          files = [n \in Names |-> IF n = "F" THEN s ELSE Absent]
    /\ out = [state |-> "absent", members |-> <<>>]
    /\ count_repr = "int"
    /\ chunk_size \in 1..MaxChunk
    /\ callback \in BOOLEAN

InitUploadOvf ==
    /\ op = "upload_ovf"
    /\ pc = "ovf_get_catalog"
    /\ uf_pc = "idle"
    /\ uf_file = "A"
    /\ uf_href = <<"link", "A">>
    /\ files = [n \in Names |-> Absent]
    /\ out = [state |-> "absent", members |-> <<>>]
    /\ count_repr = "int"
    /\ chunk_size \in 1..MaxChunk
    /\ callback \in BOOLEAN

\* The output path may hold a file from before the call; the client returns its
\* byte counts either as integers or in the representation of the declared size.
InitDownload ==
    /\ op = "download_catalog_item"
    /\ pc = "dci_get_item"
    /\ uf_pc = "idle"
    /\ uf_file = "A"
    /\ uf_href = <<"link", "A">>
    /\ files = [n \in Names |-> Absent]
    /\ out \in {[state |-> "absent", members |-> <<>>], [state |-> "old", members |-> <<>>]}
    /\ count_repr \in {"int", "str"}
    /\ chunk_size = MaxChunk
    /\ callback = FALSE

\* upload_media on a local file that may be missing.
InitUploadMedia ==
    /\ op = "upload_media"
    /\ pc = "um_stat"
    /\ uf_pc = "idle"
    /\ uf_file = "F"
    /\ uf_href = <<"link", "F">>
    /\ \E s \in Absent..MaxSize :
          files = [n \in Names |-> IF n = "F" THEN s ELSE Absent]
    /\ out = [state |-> "absent", members |-> <<>>]
    /\ count_repr = "int"
    /\ chunk_size \in 1..MaxChunk
    /\ callback \in BOOLEAN

Init ==
    /\ InitCommon
    /\ threads = NoThreads
    /\ (InitUploadFile \/ InitUploadOvf \/ InitDownload \/ InitUploadMedia)

Next ==
    \/ UfStat
    \/ UfLoop
    \/ UfRead
    \/ UfSubmit
    \/ Truncate
    \/ TopUfReturn
    \/ UmStat
    \/ UmGetCatalog
    \/ UmPost
    \/ UmGetEntity
    \/ UmUfReturn
    \/ OvfGetCatalog
    \/ OvfMkdtemp
    \/ OvfExtract
    \/ OvfParse
    \/ OvfPost
    \/ OvfGetEntity
    \/ OvfPut
    \/ OvfSleep
    \/ OvfPoll
    \/ OvfMatch
    \/ OvfUfReturn
    \/ OvfRmtree
    \/ OvfReturn
    \/ OvfExcept
    \/ OvfReraise
    \/ DciGetItem
    \/ DciPost
    \/ DciWait
    \/ DciGetEntity
    \/ DciMedia
    \/ DciDescriptor
    \/ DciMkdtemp
    \/ DciWriteDescriptor
    \/ DciDownload
    \/ DciTarOpen
    \/ DciChdir
    \/ DciTarAdd
    \/ DciFinally
    \/ DciReturn

Spec == Init /\ [][Next]_vars

\* The call is sequential code that keeps running: a step that can be taken is taken.
\* The answers of the server and of the file system stay free.
FairSpec == Init /\ [][Next]_vars /\ WF_vars(Next)

Terminal == {"done", "failed"}

\* Two threads of one process each call download_catalog_item for an appliance
\* template of one member file; the templates may name their member alike.
ConcInit ==
    /\ InitCommon
    /\ op = "two_downloads"
    /\ pc = "threads"
    /\ uf_pc = "idle"
    /\ uf_file = "A"
    /\ uf_href = <<"link", "A">>
    /\ files = [n \in Names |-> Absent]
    /\ out = [state |-> "absent", members |-> <<>>]
    /\ count_repr = "str"
    /\ chunk_size = MaxChunk
    /\ callback = FALSE
    /\ \E a \in BOOLEAN, h1 \in Members, h2 \in Members :
          threads = [t \in Threads |-> ThreadLocals(IF t = 1 THEN h1 ELSE h2, a)]

ConcNext ==
    \E t \in Threads :
        \/ ThGetcwd(t)
        \/ ThMkdtemp(t)
        \/ ThWriteDescriptor(t)
        \/ ThDownload(t)
        \/ ThTarOpen(t)
        \/ ThChdir(t)
        \/ ThAddDescriptor(t)
        \/ ThAddMember(t)
        \/ ThFinally(t)

\* The threads are scheduled in any order.
ConcSpec == ConcInit /\ [][ConcNext]_vars

\* ---------------------------------------------------------------- claims
\* C1: upload_file on a file of size S whose size does not change, with chunk
\* size C > 0, makes exactly ceil(S/C) upload_fragment submissions, no other
\* submission, and returns S.
C1_UploadFileCount ==
    (op = "upload_file" /\ pc = "done" /\ ~truncated) =>
        /\ Len(frags) = CeilDiv(files["F"], chunk_size)
        /\ http = <<>>
        /\ ret = files["F"]

\* C1 witness: a file of 3 bytes uploaded in chunks of 2 has returned.
C1_Witness ==
    /\ op = "upload_file" /\ pc = "done" /\ ~truncated
    /\ files["F"] = 3 /\ chunk_size = 2 /\ Len(frags) = 2 /\ ret = 3

\* C2: every fragment submitted at offset o with length n for a file of size S
\* carries the range 'bytes o-(o+n-1)/S', so the ranges of one upload
\* partition [0,S) without gaps or overlaps.
C2_RangeHeaders ==
    (op = "upload_file" /\ ~truncated) =>
        \A i \in 1..Len(frags) :
            frags[i].range = RangeStr(frags[i].off,
                                      frags[i].off + frags[i].len - 1,
                                      st_size)

\* Sum of the sizes of the member files the manifest m lists.
RECURSIVE SumSizes(_, _)
SumSizes(m, i) == IF i > Len(m) THEN 0 ELSE files[m[i].href] + SumSizes(m, i + 1)

\* Number of upload_file calls made for the member file f.
UploadsOf(f) == Cardinality({i \in 1..Len(uploads) : uploads[i].file = f})

\* C4: when upload_ovf returns successfully (for an archive that holds every file
\* its manifest lists), every member file of the manifest has been uploaded exactly
\* once and the total is the descriptor size plus the sizes of all member files.
C4_AllMembersUploaded ==
    (/\ op = "upload_ovf" /\ pc = "done" /\ ovf_file
     /\ \A i \in 1..Len(manifest) : files[manifest[i].href] # Absent) =>
        /\ \A i \in 1..Len(manifest) : UploadsOf(manifest[i].href) = 1
        /\ ret = desc_size + SumSizes(manifest, 1)

\* C5: the wait for the transfer slots is bounded: whatever the server reports,
\* a call of upload_ovf eventually ends (returns or fails).
C5_SlotWaitEnds == (op = "upload_ovf") ~> (pc \in Terminal)

\* C7: once upload_ovf has created its workspace, the workspace is removed on every
\* exit path; on failure the caller gets the original error, raised after the
\* workspace was removed.
C7_WorkspaceRemoved ==
    (op = "upload_ovf") =>
        /\ (pc \in Terminal) => workspace # "exists"
        /\ (pc \in Terminal /\ workspace = "none") =>
                err = <<"Exception", "Catalog not found.">>
        /\ (pc = "ovf_reraise") => workspace = "removed"
        /\ (pc = "failed") => (err = origin /\ err # NoErr /\ ret = NoVal)
        /\ (pc = "done") => (err = NoErr /\ origin = NoErr)

\* C7 witness: the descriptor PUT failed, the workspace is gone and the caller got
\* that error.
C7_Witness ==
    /\ op = "upload_ovf" /\ pc = "failed"
    /\ workspace = "removed"
    /\ err = <<"HTTPError", "put_resource">>

\* C9: an archive without a .ovf file makes upload_ovf fail with a
\* manifest-not-found error: no byte count is returned and no upload-intent
\* request is sent.
C9_NoDescriptorFails ==
    (/\ op = "upload_ovf" /\ pc \in Terminal
     /\ workspace # "none" /\ origin[1] # "ReadError" /\ ~ovf_file) =>
        /\ pc = "failed"
        /\ err[1] = "ManifestNotFound"
        /\ ret = NoVal
        /\ http = <<>>

IsAppliance == op = "download_catalog_item" /\ item_type = "vappTemplate"

\* C3: in the appliance branch a download-incomplete error is raised exactly when a
\* member's byte count differs from its declared size: a differing count fails the
\* call with the download-incomplete error naming that entry, and equal counts
\* raise no such error.
C3_SizeCheck ==
    IsAppliance =>
        /\ (origin[1] = "DownloadIncomplete") =>
               num_bytes[2] # manifest[si].size[2]
        /\ (pc = "failed" /\ origin[1] = "DownloadIncomplete") =>
               err = <<"DownloadIncomplete", manifest[si].href>>
        /\ (pc = "done") => dfiles = manifest

\* C6: the export-enable task is polled at interval 1 with timeout 60: the wait
\* never lasts longer, a task that stays running ends the call with a task-timeout
\* error and a task in error with a task-failed error, and in both cases nothing
\* has been fetched.
C6_TaskPollBounded ==
    (op = "download_catalog_item") =>
        /\ task_elapsed = task_polls * 1 \/ err[1] = "TaskFailed"
        /\ task_elapsed <= 60
        /\ (pc = "dci_wait") => task_elapsed < 60
        /\ (err[1] = "TaskTimeout") => (pc = "failed" /\ task_elapsed = 60)
        /\ (err[1] \in {"TaskTimeout", "TaskFailed"}) =>
               /\ pc = "failed"
               /\ ret = NoVal
               /\ manifest = <<>>
               /\ workspace = "none"
               /\ \A i \in 1..Len(http) : http[i][1] # "GET"

\* C6 witness: the task stayed running for 60 polls and the call failed with the
\* task-timeout error.
C6_Witness ==
    /\ op = "download_catalog_item" /\ pc = "failed"
    /\ err[1] = "TaskTimeout"
    /\ task_polls = 60

\* C8: when the appliance branch completes normally the temporary workspace no
\* longer exists.
C8_WorkspaceGone ==
    (IsAppliance /\ pc = "done") => workspace = "removed"

\* C10: download_catalog_item returns no partial result: a failed call returns no
\* byte count and leaves no half-written archive at the output path, and a byte
\* count is returned only together with a completed archive.
C10_NoPartialResult ==
    IsAppliance =>
        /\ (pc = "failed") => (ret = NoVal /\ out.state # "partial")
        /\ (pc = "done") => (out.state = "complete" /\ ret = StatSize(out))

\* Exceptions whose cause is the environment: a request or a file operation failed.
EnvFailures == {"HTTPError", "ReadError", "IOError", "OSError"}

\* C11: for a manifest with zero member files upload_ovf still ends successfully and
\* returns the size of the descriptor alone (unless a request or the archive fails).
C11_EmptyManifestUploads ==
    (/\ op = "upload_ovf" /\ pc \in Terminal
     /\ ovf_file /\ manifest = <<>>
     /\ origin[1] \notin EnvFailures) =>
        /\ pc = "done"
        /\ ret = desc_size

\* C12: upload_file terminates on every input, also when a read returns zero bytes
\* before the transferred count has reached the recorded size: every call ends
\* (returns or fails).
C12_UploadFileEnds == (op = "upload_file") ~> (pc \in Terminal)

\* The step of the download state machine a control state belongs to: 0 Idle,
\* 1 DownloadEnabled, 2 TaskPolling, 3 ManifestFetched, 4 FilesDownloading,
\* 5 Packaged, 6 Failed.
DciRank(p, polls, e) ==
    IF p \in {"dci_get_item", "dci_post"} THEN 0
    ELSE IF p = "dci_wait" THEN (IF polls = 0 THEN 1 ELSE 2)
    ELSE IF p \in {"dci_get_entity", "dci_descriptor"} THEN 2
    ELSE IF p = "dci_mkdtemp" THEN 3
    ELSE IF p \in {"dci_write_descriptor", "dci_download"} THEN 4
    ELSE IF p = "dci_finally" THEN (IF e = NoErr THEN 5 ELSE 6)
    ELSE IF p \in {"dci_tar_open", "dci_chdir", "dci_tar_add", "dci_return", "done"} THEN 5
    ELSE 6

Last(s) == s[Len(s)]

\* One step of an appliance download keeps the order of the state machine.
C14_Step ==
    (op = "download_catalog_item" /\ item_type' = "vappTemplate") =>
        LET r == DciRank(pc, task_polls, exc)
            rn == DciRank(pc', task_polls', exc')
        IN  /\ rn = 6 \/ (r < 6 /\ rn \in {r, r + 1})
            /\ (http' # http /\ Last(http')[1] = "POST") => (r = 0 /\ http = <<>>)
            /\ (rn \in 1..5) => (Len(http') >= 1 /\ http'[1][1] = "POST")
            /\ (http' # http /\ Last(http')[1] = "GET") => (r >= 2 /\ pc # "dci_wait")
            /\ (Len(dfiles') > Len(dfiles)) => num_bytes'[2] = manifest[si].size[2]
            /\ (out' # out) => (r = 5 /\ dfiles = manifest)

\* C14: an appliance download passes through Idle, DownloadEnabled, TaskPolling,
\* ManifestFetched, FilesDownloading, Packaged in this order, or fails: the
\* enable-download action is posted once, before polling; manifest and member files
\* are fetched only after the task poll succeeded; the archive is written only after
\* every member download passed its size check.
C14_StepOrder == [][C14_Step]_vars

\* C14 witness: an appliance download of two member files has gone through every
\* step and returned.
C14_Witness ==
    /\ IsAppliance /\ pc = "done"
    /\ Len(manifest) = 2 /\ dfiles = manifest
    /\ out.state = "complete"

\* C15: upload_ovf sends the descriptor first, as one unchunked PUT; no member
\* fragment is submitted before that PUT has completed and a later poll has seen
\* more than one transfer-slot entry; every member upload targets the link of the
\* slot whose name equals the member's href.
C15_DescriptorFirst ==
    (op = "upload_ovf") =>
        /\ Cardinality({i \in 1..Len(http) : http[i][1] = "PUT"}) <= 1
        /\ (frags # <<>> \/ uploads # <<>>) =>
               /\ http = << <<"POST", "action/upload">>, <<"PUT", "descriptor.ovf">> >>
               /\ origin # <<"HTTPError", "put_resource">>
               /\ Len(entity) > 1
        /\ \A i \in 1..Len(uploads) :
               /\ uploads[i].href = <<"link", uploads[i].file>>
               /\ \E j \in 1..Len(entity) : entity[j] = uploads[i].file
        /\ \A i \in 1..Len(frags) :
               \E j \in 1..Len(uploads) :
                   /\ frags[i].href = uploads[j].href
                   /\ frags[i].href # <<"link", "descriptor.ovf">>

\* C15 witness: both member files were uploaded in fragments after the descriptor
\* PUT and the call returned.
C15_Witness ==
    /\ op = "upload_ovf" /\ pc = "done"
    /\ Len(uploads) = 2 /\ Len(frags) >= 2

\* C16: during upload_file the transferred counter never exceeds the size recorded
\* at the start, the values the progress callback reports are strictly increasing,
\* and when the call has returned the counter equals the recorded size and the last
\* report is (size, size).
C16_ProgressIncreases ==
    (op = "upload_file") =>
        /\ transferred <= st_size
        /\ \A i \in 1..(Len(progress) - 1) :
               /\ progress[i][1] < progress[i + 1][1]
               /\ progress[i + 1][1] <= progress[i + 1][2]
        /\ (pc = "done") =>
               /\ ret = st_size
               /\ (callback /\ st_size > 0) => Last(progress) = <<st_size, st_size>>

\* C17: a successful appliance download leaves an archive holding exactly the
\* manifest document followed by one member per file entry of the manifest, each
\* under its declared href; with a manifest of zero entries the download succeeds,
\* unless the environment fails, and the archive holds only the manifest.
C17_ArchiveContents ==
    IsAppliance =>
        /\ (pc = "done") =>
               /\ out.state = "complete"
               /\ Len(out.members) = Len(manifest) + 1
               /\ out.members[1].name = "descriptor.ovf"
               /\ \A i \in 1..Len(manifest) : out.members[i + 1].name = manifest[i].href
        /\ (/\ pc \in Terminal
            /\ workspace = "exists"
            /\ manifest = <<>>
            /\ origin[1] \notin EnvFailures) =>
               /\ pc = "done"
               /\ Len(out.members) = 1

\* C18: for a plain-media item download_catalog_item creates no workspace and does
\* not change directory; it issues one download, of the item's transfer link, and
\* only after the enable-download POST and a successful task; the value returned is
\* the byte count that download reported, at most the declared size.
C18_MediaSingleDownload ==
    (op = "download_catalog_item" /\ item_type = "media") =>
        /\ workspace = "none"
        /\ cwd = "orig"
        /\ (\E i \in 1..Len(http) : http[i][1] = "GET") =>
               /\ http = << <<"POST", "action/enableDownload">>, <<"GET", "media">> >>
               /\ origin[1] \notin {"TaskFailed", "TaskTimeout"}
               /\ Len(out.members) = 1
        /\ (pc = "done") =>
               /\ Len(http) = 2 /\ http[2] = <<"GET", "media">>
               /\ ret = out.members[1].bytes
               /\ ret <= manifest[1].size[2]

\* C18 witness: a media download returned a count below the declared size.
C18_Witness ==
    /\ op = "download_catalog_item" /\ item_type = "media" /\ pc = "done"
    /\ ret = 1 /\ manifest[1].size[2] = 2

\* C19: when download_catalog_item has ended, by a normal return or by any failure,
\* the process working directory is the one it was when the call began.
C19_CwdRestored ==
    (op = "download_catalog_item" /\ pc \in Terminal) => cwd = "orig"

\* C19 witness: the call failed while adding a member to the archive, after it had
\* changed into the workspace, and the directory is the original one again.
C19_Witness ==
    /\ IsAppliance /\ pc = "failed"
    /\ origin = <<"IOError", "tar.add">>
    /\ Len(out.members) >= 1
    /\ cwd = "orig"

NotFoundErrors ==
    {<<"Exception", "Catalog not found.">>, <<"Exception", "Catalog item not found.">>}

\* C20: when upload_ovf, upload_media or download_catalog_item fails because the
\* named catalog or catalog item does not exist, the failure is the first thing the
\* call raised, no POST, PUT or fragment upload was sent, no workspace was created,
\* the working directory and the output path are untouched and nothing is returned.
C20_NotFoundBeforeEffects ==
    (err \in NotFoundErrors \/ origin \in NotFoundErrors) =>
        /\ pc = "failed"
        /\ err = origin
        /\ op \in {"upload_ovf", "upload_media", "download_catalog_item"}
        /\ http = <<>>
        /\ frags = <<>>
        /\ uploads = <<>>
        /\ workspace = "none"
        /\ cwd = "orig"
        /\ out.members = <<>> /\ out.state \in {"absent", "old"}
        /\ ret = NoVal

\* C20 witness: upload_media of an existing local file failed on the catalog lookup.
C20_Witness ==
    /\ op = "upload_media" /\ pc = "failed"
    /\ files[uf_file] # Absent
    /\ err = <<"Exception", "Catalog not found.">>
    /\ http = <<>>

\* C13: two appliance downloads on two threads of one process, each with its own
\* workspace and output path, do not disturb each other: no thread fails (the
\* environment never fails here), and a thread that returned wrote an archive made
\* of the descriptor and the member file of its own workspace.
C13_ThreadsIndependent ==
    (op = "two_downloads") =>
        \A t \in Threads :
            /\ threads[t].pc # "failed"
            /\ (threads[t].pc = "done") =>
                   threads[t].tar = << <<"descriptor.ovf", t>>, <<threads[t].href, t>> >>
====
